---------------------------- MODULE Spec2Model ----------------------------
(***************************************************************************)
(* A model of the Mini-Shell command-tree executor (src/src/cmd.c).        *)
(*                                                                         *)
(* C strings are sequences of one-character strings ("cd" is <<"c","d">>). *)
(* A word_t list is a sequence of fragments [string, expand]; the NULL     *)
(* word is the empty sequence.  A file-descriptor table maps descriptor    *)
(* numbers to open file descriptions.                                      *)
(***************************************************************************)
EXTENDS Integers, Sequences, FiniteSets, TLC

VARIABLES
    tree,       \* the command tree handed to parse_command (never written)
    procs,      \* the process table: a sequence of processes, pid = index
    files,      \* the paths of the files that exist
    nfail,      \* how many fork() calls have failed so far
    evals,      \* history: node path -> number of parse_command calls on it
    status,     \* history: node path -> <<v>> once parse_command returned v
    cwdAt,      \* history: node path -> working directory at the call
    failedAt,   \* history: the node paths at which a fork() failed
    rd          \* the redirection harness: one process calling
                \* saveAllAndSwitch and then switchAndClose

vars == <<tree, procs, files, nfail, evals, status, cwdAt, failedAt, rd>>

procVars == <<tree, procs, files, nfail, evals, status, cwdAt, failedAt>>

---------------------------------------------------------------------------
(* Bounds *)

\* Highest file-descriptor number a process may hold (its descriptor limit).
MaxFd == 8

\* How many fork() calls may fail in one run.
MaxForkFail == 1

---------------------------------------------------------------------------
(* Strings and words *)

NullWord == <<>>

Lit(str) == [string |-> str, expand |-> FALSE]
Var(str) == [string |-> str, expand |-> TRUE]

\* getenv: the value of a variable, or the C NULL pointer (modelled as a
\* record flag, since a value may be the empty string).
Getenv(env, name) ==
    IF name \in DOMAIN env THEN [null |-> FALSE, value |-> env[name]]
                           ELSE [null |-> TRUE, value |-> <<>>]

\* setenv(name, value, 1)
Setenv(env, name, value) == (name :> value) @@ env

\* The concatenation loop shared by getFile, getParameters and the
\* assignment branch of parse_simple: a variable fragment contributes its
\* value (nothing when unset), a literal fragment its string.
RECURSIVE Resolve(_, _)
Resolve(w, env) ==
    IF w = <<>> THEN <<>>
    ELSE LET f == Head(w)
             piece == IF f.expand
                      THEN (IF Getenv(env, f.string).null
                            THEN <<>> ELSE Getenv(env, f.string).value)
                      ELSE f.string
         IN  piece \o Resolve(Tail(w), env)

GetFile(w, env) == Resolve(w, env)

---------------------------------------------------------------------------
(* File-descriptor tables *)

FdRange == 0..MaxFd

Closed == [path |-> <<>>, mode |-> "closed"]

Tty(name) == [path |-> <<name>>, mode |-> "tty"]

STDIN_FILENO  == 0
STDOUT_FILENO == 1
STDERR_FILENO == 2

IsOpen(fds, fd) == fd \in FdRange /\ fds[fd].mode # "closed"

OpenFds(fds) == {fd \in FdRange : IsOpen(fds, fd)}

HasFree(fds) == \E fd \in FdRange : ~IsOpen(fds, fd)

LowestFree(fds) ==
    CHOOSE fd \in FdRange :
        /\ ~IsOpen(fds, fd)
        /\ \A k \in FdRange : ~IsOpen(fds, k) => fd <= k

\* dup(fd): the lowest free descriptor now refers to fd's description;
\* -1 when fd is not open or the table is full.
Dup(fds, fd) ==
    IF IsOpen(fds, fd) /\ HasFree(fds)
    THEN [fds |-> [fds EXCEPT ![LowestFree(fds)] = fds[fd]],
          ret |-> LowestFree(fds)]
    ELSE [fds |-> fds, ret |-> -1]

\* open(path, O_RDONLY) needs the file to exist; open(path, O_WRONLY |
\* O_CREAT | ..., 0644) creates it, and fails only for the empty path.
CanOpen(fs, path, mode) ==
    IF mode = "rdonly" THEN path \in fs ELSE path # <<>>

Open(fds, fs, path, mode) ==
    IF CanOpen(fs, path, mode) /\ HasFree(fds)
    THEN [fds |-> [fds EXCEPT ![LowestFree(fds)] =
                        [path |-> path, mode |-> mode]],
          files |-> IF mode = "rdonly" THEN fs ELSE fs \cup {path},
          ret |-> LowestFree(fds)]
    ELSE [fds |-> fds, files |-> fs, ret |-> -1]

\* dup2(old, new): fails, changing nothing, when old is not open.
Dup2(fds, old, new) ==
    IF IsOpen(fds, old) /\ new \in FdRange
    THEN [fds EXCEPT ![new] = fds[old]]
    ELSE fds

\* close(fd): EBADF, changing nothing, when fd is not open.
Close(fds, fd) ==
    IF IsOpen(fds, fd) THEN [fds EXCEPT ![fd] = Closed] ELSE fds

---------------------------------------------------------------------------
(* Redirection flags (s->io_flags): the set of flag bits that are set.     *)

IO_REGULAR    == {}
IO_OUT_APPEND == {"IO_OUT_APPEND"}
IO_ERR_APPEND == {"IO_ERR_APPEND"}

IoFlagValues == SUBSET {"IO_OUT_APPEND", "IO_ERR_APPEND"}

\* s->out->string: the string of a word's first fragment.
FirstString(w) == w[1].string

\* The open mode saveAllAndSwitch picks for the output file.
OutMode(s) ==
    IF \/ s.io_flags = IO_OUT_APPEND
       \/ (s.err # NullWord /\ FirstString(s.out) = FirstString(s.err))
    THEN "append" ELSE "trunc"

\* The open mode saveAllAndSwitch picks for the error file.
ErrMode(s) ==
    IF s.io_flags = IO_ERR_APPEND THEN "append" ELSE "trunc"

\* One block of saveAllAndSwitch: saved = dup(std); fd = open(path, mode);
\* dup2(fd, std).
Redirect(fds, fs, std, path, mode) ==
    LET d == Dup(fds, std)
        o == Open(d.fds, fs, path, mode)
    IN  [fds |-> Dup2(o.fds, o.ret, std), files |-> o.files,
         saved |-> d.ret, fd |-> o.ret]

\* A block whose redirection is absent: nothing is done and the two locals
\* keep their indeterminate values.
NoRedirect(fds, fs, gsaved, gfd) ==
    [fds |-> fds, files |-> fs, saved |-> gsaved, fd |-> gfd]

\* saveAllAndSwitch(s).  g holds the indeterminate initial values of the six
\* locals saved_stdin, saved_stdout, saved_stderr, fd_in, fd_out, fd_err: a
\* local whose redirection is absent is stored into saved[] unassigned.
SaveAllAndSwitch(fds, fs, env, s, g) ==
    LET a0 == IF s.in # NullWord
              THEN Redirect(fds, fs, STDIN_FILENO, GetFile(s.in, env), "rdonly")
              ELSE NoRedirect(fds, fs, g[1], g[4])
        a1 == IF s.out # NullWord
              THEN Redirect(a0.fds, a0.files, STDOUT_FILENO,
                            GetFile(s.out, env), OutMode(s))
              ELSE NoRedirect(a0.fds, a0.files, g[2], g[5])
        a2 == IF s.err # NullWord
              THEN Redirect(a1.fds, a1.files, STDERR_FILENO,
                            GetFile(s.err, env), ErrMode(s))
              ELSE NoRedirect(a1.fds, a1.files, g[3], g[6])
    IN  [fds |-> a2.fds, files |-> a2.files,
         saved |-> <<a0.saved, a1.saved, a2.saved, a0.fd, a1.fd, a2.fd>>]

\* switchAndClose(saved, s).  saved is the 1-based image of the C array
\* saved[0..5].
SwitchAndClose(fds, saved, s) ==
    LET r0 == IF s.in # NullWord
              THEN Dup2(fds, saved[1], STDIN_FILENO) ELSE fds
        r1 == IF s.out # NullWord
              THEN Dup2(r0, saved[2], STDOUT_FILENO) ELSE r0
        r2 == IF s.err # NullWord
              THEN Dup2(r1, saved[3], STDERR_FILENO) ELSE r1
    IN  Close(Close(Close(r2, saved[4]), saved[5]), saved[6])


---------------------------------------------------------------------------
(* The redirection harness: one process applies saveAllAndSwitch to a      *)
(* simple command and then switchAndClose, as the child of parse_simple    *)
(* does around the cd built-in (lines 283-295 and 302-316).                *)

S_f == <<"f">>
S_g == <<"g">>
S_m == <<"m">>
S_x == <<"x">>
S_A == <<"A">>

\* Redirection targets tried.  "f" exists, "m" does not; $A is "f" or unset.
RedirIns  == {NullWord, <<Lit(S_f)>>, <<Lit(S_m)>>}
RedirOuts == {NullWord, <<Lit(S_f)>>, <<Lit(S_g)>>, <<Var(S_A)>>}
RedirErrs == {NullWord, <<Lit(S_f)>>, <<Var(S_A)>>, <<Var(S_A), Lit(S_x)>>}

RedirEnvs == {<<>>, S_A :> S_f}

StdFds == [fd \in FdRange |->
             CASE fd = STDIN_FILENO  -> Tty("i")
               [] fd = STDOUT_FILENO -> Tty("o")
               [] fd = STDERR_FILENO -> Tty("e")
               [] OTHER -> Closed]

\* The descriptor tables a command may start with: the three standard
\* streams, possibly with one more descriptor the shell holds open.
StartFds == {StdFds, [StdFds EXCEPT ![3] = [path |-> <<"p">>, mode |-> "rdonly"]]}

\* Values an unassigned int local may hold: an invalid descriptor, a
\* standard stream, the first descriptor above the standard streams.
GarbageValues == {-1, STDOUT_FILENO, 3}

\* The initial values of the six locals of saveAllAndSwitch.  Those of an
\* assigned local are overwritten and those of saved_stdin, saved_stdout
\* and saved_stderr are never read back when unassigned (switchAndClose
\* reads saved[0..2] under the same tests), so one value stands for all.
Garbage(s) ==
    {g \in [1..6 -> GarbageValues] :
        /\ g[1] = -1 /\ g[2] = -1 /\ g[3] = -1
        /\ s.in  # NullWord => g[4] = -1
        /\ s.out # NullWord => g[5] = -1
        /\ s.err # NullWord => g[6] = -1}

RedirCmd(in, out, err, flags) ==
    [verb |-> <<Lit(<<"c", "d">>)>>, params |-> <<>>,
     in |-> in, out |-> out, err |-> err, io_flags |-> flags]

\* The process machine, idle.
NoProcesses ==
    /\ tree = [op |-> "NULL"]
    /\ procs = <<>>
    /\ files = {}
    /\ nfail = 0
    /\ evals = <<>>
    /\ status = <<>>
    /\ cwdAt = <<>>
    /\ failedAt = {}

InitRedir ==
    /\ NoProcesses
    /\ \E in \in RedirIns, out \in RedirOuts, err \in RedirErrs,
          flags \in IoFlagValues, env \in RedirEnvs, fds \in StartFds :
        rd = [phase |-> "start", s |-> RedirCmd(in, out, err, flags),
              env |-> env, files |-> {S_f}, fds |-> fds, before |-> fds,
              saved |-> <<>>]

RedirSwitch ==
    /\ UNCHANGED procVars
    /\ rd.phase = "start"
    /\ \E g \in Garbage(rd.s) :
         LET r == SaveAllAndSwitch(rd.fds, rd.files, rd.env, rd.s, g)
         IN  rd' = [rd EXCEPT !.phase = "switched", !.fds = r.fds,
                              !.files = r.files, !.saved = r.saved]

RedirRestore ==
    /\ UNCHANGED procVars
    /\ rd.phase = "switched"
    /\ rd' = [rd EXCEPT !.phase = "restored",
                        !.fds = SwitchAndClose(rd.fds, rd.saved, rd.s)]

NextRedir == RedirSwitch \/ RedirRestore

SpecRedir == InitRedir /\ [][NextRedir]_vars

---------------------------------------------------------------------------
(* Command trees *)

NullCmd    == [op |-> "NULL"]
NullSimple == [null |-> TRUE]

SimpleCmd(verb, params) ==
    [verb |-> verb, params |-> params, in |-> NullWord, out |-> NullWord,
     err |-> NullWord, io_flags |-> IO_REGULAR]

Leaf(s) == [op |-> "OP_NONE", scmd |-> s, cmd1 |-> NullCmd, cmd2 |-> NullCmd]

OpNode(op, sc, l, r) == [op |-> op, scmd |-> sc, cmd1 |-> l, cmd2 |-> r]

RECURSIVE Node(_, _)
Node(t, path) ==
    IF path = <<>> THEN t
    ELSE Node(IF Head(path) = 1 THEN t.cmd1 ELSE t.cmd2, Tail(path))

RECURSIVE PathsOf(_)
PathsOf(t) ==
    IF t.op \in {"NULL", "OP_NONE"} THEN {<<>>}
    ELSE {<<>>} \cup {<<1>> \o q : q \in PathsOf(t.cmd1)}
                \cup {<<2>> \o q : q \in PathsOf(t.cmd2)}

S_cd    == <<"c", "d">>
S_exit  == <<"e", "x", "i", "t">>
S_quit  == <<"q", "u", "i", "t">>
S_true  == <<"t", "r", "u", "e">>
S_false == <<"f", "a", "l", "s", "e">>
S_eq    == <<"=">>
S_HOME  == <<"H", "O", "M", "E">>
S_X     == <<"X">>
S_v     == <<"v">>
S_p     == <<"p">>
S_q     == <<"q">>
S_n     == <<"n">>

\* The programs execvp finds; any other verb fails to launch.
Programs == {S_p, S_q}

\* The exit codes an external program may terminate with: "p" with any of
\* these, "q" always with 2.
ExitCodes == {0, 1, 2, 255}

CodesOf(verb) == IF verb = S_q THEN {2} ELSE ExitCodes

---------------------------------------------------------------------------
(* Directories.  A directory is the sequence of its path components; no    *)
(* target used here contains "." or "..".                                  *)

Dirs == {<<>>, <<S_f>>, <<S_f, S_f>>, <<S_g>>}

\* The components of a path string; cur is the component being read.
RECURSIVE Split(_, _)
Split(str, cur) ==
    IF str = <<>> THEN (IF cur = <<>> THEN <<>> ELSE <<cur>>)
    ELSE IF Head(str) = "/"
         THEN (IF cur = <<>> THEN <<>> ELSE <<cur>>) \o Split(Tail(str), <<>>)
         ELSE Split(Tail(str), Append(cur, Head(str)))

\* chdir(path) from working directory cwd; path is a Getenv-style record
\* (chdir(NULL) fails with EFAULT, chdir("") with ENOENT).
Chdir(cwd, path) ==
    LET target == IF path.value # <<>> /\ Head(path.value) = "/"
                  THEN Split(path.value, <<>>)
                  ELSE cwd \o Split(path.value, <<>>)
        ok == ~path.null /\ path.value # <<>> /\ target \in Dirs
    IN  [ok |-> ok, cwd |-> IF ok THEN target ELSE cwd]

\* shell_cd(dir): dir is s->params, the list of parameter words; dir->string
\* is the string of the first fragment of the first parameter.
ShellCd(cwd, env, params) ==
    IF params = <<>>
    THEN Chdir(cwd, Getenv(env, S_HOME))
    ELSE Chdir(cwd, [null |-> FALSE, value |-> FirstString(params[1])])

---------------------------------------------------------------------------
(* Exit and wait statuses *)

\* exit(status): the process's exit code is the low 8 bits of status.
ExitCode(st) == st % 256

\* The int waitpid stores for a child that exited with this code (the
\* encoding WEXITSTATUS undoes: the code in bits 8..15).
WaitStatus(code) == code * 256

\* An int converted to the bool a function returns, read back as an int.
BoolOf(v) == IF v = 0 THEN 0 ELSE 1

---------------------------------------------------------------------------
(* parse_simple: which branch a simple command takes, in the order the     *)
(* code tests them.                                                        *)

VerbString(s) == FirstString(s.verb)

IsAssignment(s) == Len(s.verb) >= 2 /\ s.verb[2].string = S_eq

ParseSimpleKind_BuiltinsFirst(s) ==
    IF s = NullSimple \/ s.verb = NullWord THEN "error"
    ELSE IF VerbString(s) \in {S_exit, S_quit} THEN "exit"
    ELSE IF VerbString(s) = S_true THEN "true"
    ELSE IF VerbString(s) = S_false THEN "false"
    ELSE IF IsAssignment(s) THEN "assign"
    ELSE "fork"

ParseSimpleKind(s) ==
    IF s = NullSimple \/ s.verb = NullWord THEN "error"
    ELSE IF IsAssignment(s) THEN "assign"
    ELSE IF VerbString(s) \in {S_exit, S_quit} THEN "exit"
    ELSE IF VerbString(s) = S_true THEN "true"
    ELSE IF VerbString(s) = S_false THEN "false"
    ELSE "fork"

\* The value of an assignment: the fragments after "=", resolved.
AssignedValue(s, env) == Resolve(SubSeq(s.verb, 3, Len(s.verb)), env)

IsCd(s) == s # NullSimple /\ s.verb # NullWord /\ VerbString(s) = S_cd

\* The test the conditionals make on their left child (c->cmd1 && c->cmd1->
\* scmd && c->cmd1->scmd->verb != NULL && strcmp(..., "cd") == 0).
LeftIsCd(c) == c.cmd1.op # "NULL" /\ IsCd(c.cmd1.scmd)

\* What parse_command returns for a SEQUENCE node whose children returned
\* status1 and status2 (break; return 0).
SequentialResult(status1, status2) == 0

ParallelResult_Propagate(status1, status2) == status2

\* What parse_command returns for a PARALLEL node whose children's wait
\* statuses are status1 and status2 (run_in_parallel's bool is dropped).
ParallelResult(status1, status2) == 0

TakesRight_LowByte(op, st) ==
    IF op = "OP_CONDITIONAL_ZERO" THEN st % 256 = 0 ELSE st % 256 # 0

\* Whether a conditional evaluates its right child after its left returned st.
TakesRight(op, st) ==
    IF op = "OP_CONDITIONAL_ZERO" THEN st = 0 ELSE st # 0

---------------------------------------------------------------------------
(* The process machine.  A process is at a call of parse_command on a node *)
(* ("call"), returning from one ("ret"), blocked in waitpid ("wait"),      *)
(* between the two forks of run_in_parallel or run_on_pipe ("fork2"), or   *)
(* is the child parse_simple forked ("exec").  Its stack holds, innermost  *)
(* last, the calls that are waiting for a value.                           *)

Call(n)   == [kind |-> "call", node |-> n, val |-> 0]
Ret(n, v) == [kind |-> "ret", node |-> n, val |-> v]
Ctl(k, n) == [kind |-> k, node |-> n, val |-> 0]

Frame(k, n) == [k |-> k, n |-> n, a |-> 0, b |-> 0, r |-> -1, w |-> -1]

AllClosed == [fd \in FdRange |-> Closed]

InitEnv == S_HOME :> <<"/", "g">>

Shell ==
    [st |-> "run", ctl |-> Call(<<>>), stack |-> <<>>, cwd |-> <<>>,
     env |-> InitEnv, fds |-> StdFds, code |-> 0, parent |-> 0,
     role |-> "shell", node |-> <<>>, restores |-> 0]

\* The child fork() creates: a copy of its parent that continues at ctl.
\* The field restores counts the calls of switchAndClose the process made.
Child(pr, p, role, n, ctl, stack, fds) ==
    [st |-> "run", ctl |-> ctl, stack |-> stack, cwd |-> pr.cwd,
     env |-> pr.env, fds |-> fds, code |-> 0, parent |-> p,
     role |-> role, node |-> n, restores |-> 0]

\* shell_exit(st): the process terminates; its descriptors are closed.
Exited(pr, st) ==
    [pr EXCEPT !.st = "zombie", !.code = ExitCode(st),
               !.ctl = Ctl("done", <<>>), !.stack = <<>>, !.fds = AllClosed]

Top(pr) == pr.stack[Len(pr.stack)]
Pop(pr) == SubSeq(pr.stack, 1, Len(pr.stack) - 1)

At(p, kind) == procs[p].st = "run" /\ procs[p].ctl.kind = kind

AtFrame(p, kind, ks) ==
    /\ At(p, kind)
    /\ Len(procs[p].stack) > 0
    /\ Top(procs[p]).k \in ks

Entered(n, cwd) ==
    /\ evals' = [evals EXCEPT ![n] = @ + 1]
    /\ cwdAt' = [cwdAt EXCEPT ![n] = cwd]

Returned(n, v) == status' = [status EXCEPT ![n] = <<v>>]

ForkFails(n) ==
    /\ nfail < MaxForkFail
    /\ nfail' = nfail + 1
    /\ failedAt' = failedAt \cup {n}

ForkWorks == UNCHANGED <<nfail, failedAt>>

\* parse_command: a NULL command, and the first half of OP_SEQUENTIAL.
ParseCommand(p) ==
    /\ At(p, "call")
    /\ LET pr == procs[p]
           n  == pr.ctl.node
           c  == Node(tree, n)
       IN  /\ c.op \in {"NULL", "OP_SEQUENTIAL"}
           /\ Entered(n, pr.cwd)
           /\ IF c.op = "NULL"
              THEN /\ procs' = [procs EXCEPT ![p].ctl = Ret(n, 0)]
                   /\ Returned(n, 0)
              ELSE /\ procs' = [procs EXCEPT
                                  ![p].ctl = Call(n \o <<1>>),
                                  ![p].stack = Append(@, Frame("seq1", n))]
                   /\ UNCHANGED status
    /\ UNCHANGED <<tree, files, nfail, failedAt, rd>>

\* parse_command, OP_SEQUENTIAL: the second call, then break and return 0.
Sequential(p) ==
    /\ AtFrame(p, "ret", {"seq1", "seq2"})
    /\ LET pr == procs[p]
           f  == Top(pr)
       IN  IF f.k = "seq1"
           THEN /\ procs' = [procs EXCEPT
                               ![p].ctl = Call(f.n \o <<2>>),
                               ![p].stack = Append(Pop(pr),
                                   [Frame("seq2", f.n) EXCEPT !.a = pr.ctl.val])]
                /\ UNCHANGED status
           ELSE /\ procs' = [procs EXCEPT
                               ![p].ctl = Ret(f.n, SequentialResult(f.a, pr.ctl.val)),
                               ![p].stack = Pop(pr)]
                /\ Returned(f.n, SequentialResult(f.a, pr.ctl.val))
    /\ UNCHANGED <<tree, files, nfail, evals, cwdAt, failedAt, rd>>

\* parse_simple up to the fork: the sanity check, the assignment, the
\* built-ins exit, quit, true and false.
ParseSimpleBuiltin(p) ==
    /\ At(p, "call")
    /\ LET pr == procs[p]
           n  == pr.ctl.node
           c  == Node(tree, n)
           s  == c.scmd
           k  == ParseSimpleKind(s)
       IN  /\ c.op = "OP_NONE"
           /\ k # "fork"
           /\ Entered(n, pr.cwd)
           /\ CASE k = "error" ->
                     /\ procs' = [procs EXCEPT ![p].ctl = Ret(n, 1)]
                     /\ Returned(n, 1)
                [] k = "assign" ->
                     /\ procs' = [procs EXCEPT
                            ![p].ctl = Ret(n, 0),
                            ![p].env = Setenv(pr.env, VerbString(s),
                                              AssignedValue(s, pr.env))]
                     /\ Returned(n, 0)
                [] k = "exit" ->
                     /\ procs' = [procs EXCEPT ![p] = Exited(pr, 0)]
                     /\ UNCHANGED status
                [] k = "true" ->
                     /\ procs' = [procs EXCEPT ![p].ctl = Ret(n, 0)]
                     /\ Returned(n, 0)
                [] k = "false" ->
                     /\ procs' = [procs EXCEPT ![p].ctl = Ret(n, 1)]
                     /\ Returned(n, 1)
    /\ UNCHANGED <<tree, files, nfail, failedAt, rd>>

\* parse_simple: fork().  The child continues at line 276, the parent at
\* waitpid; a failed fork is reported and -1 returned.
ParseSimpleFork(p) ==
    /\ At(p, "call")
    /\ LET pr == procs[p]
           n  == pr.ctl.node
           c  == Node(tree, n)
       IN  /\ c.op = "OP_NONE"
           /\ ParseSimpleKind(c.scmd) = "fork"
           /\ Entered(n, pr.cwd)
           /\ \/ /\ ForkWorks
                 /\ procs' = Append(
                        [procs EXCEPT
                           ![p].ctl = Ctl("wait", n),
                           ![p].stack = Append(@,
                               [Frame("simple_wait", n) EXCEPT !.a = Len(procs) + 1])],
                        Child(pr, p, "simple", n, Ctl("exec", n), <<>>, pr.fds))
                 /\ UNCHANGED status
              \/ /\ ForkFails(n)
                 /\ procs' = [procs EXCEPT ![p].ctl = Ret(n, -1)]
                 /\ Returned(n, -1)
    /\ UNCHANGED <<tree, files, rd>>

\* saved[] is read by switchAndClose alone, which only the cd branch of the
\* child reaches: elsewhere one value stands for all.
ChildGarbage(s) ==
    IF IsCd(s) THEN Garbage(s) ELSE {[i \in 1..6 |-> -1]}

\* The child of parse_simple: redirection, then cd (restore the streams and
\* exit with 0) or execvp (the program runs; on failure exit with 1).
SimpleChild(p) ==
    /\ At(p, "exec")
    /\ LET pr == procs[p]
           s  == Node(tree, pr.ctl.node).scmd
       IN  \E g \in ChildGarbage(s) :
             LET sw == SaveAllAndSwitch(pr.fds, files, pr.env, s, g)
             IN  /\ files' = sw.files
                 /\ IF IsCd(s)
                    THEN procs' = [procs EXCEPT ![p] =
                            Exited([pr EXCEPT
                                !.cwd = ShellCd(pr.cwd, pr.env, s.params).cwd,
                                !.fds = SwitchAndClose(sw.fds, sw.saved, s),
                                !.restores = @ + 1], 0)]
                    ELSE IF VerbString(s) \in Programs
                    THEN procs' = [procs EXCEPT
                            ![p].st = "prog", ![p].fds = sw.fds,
                            ![p].ctl = Ctl("prog", pr.ctl.node)]
                    ELSE procs' = [procs EXCEPT ![p] =
                            Exited([pr EXCEPT !.fds = sw.fds], 1)]
    /\ UNCHANGED <<tree, nfail, evals, status, cwdAt, failedAt, rd>>

\* The external program terminates with some exit code.
ProgExit(p) ==
    /\ procs[p].st = "prog"
    /\ \E e \in CodesOf(VerbString(Node(tree, procs[p].ctl.node).scmd)) :
          procs' = [procs EXCEPT ![p] = Exited(procs[p], e)]
    /\ UNCHANGED <<tree, files, nfail, evals, status, cwdAt, failedAt, rd>>

\* waitpid(pid, &status, 0) returns once the child has terminated.
Zombie(pid) == procs[pid].st = "zombie"

Reaped(ps, pid) == [ps EXCEPT ![pid].st = "reaped"]

SimpleResult_IgnoreCd(isCd, cdOk, st) == st

\* What the parent in parse_simple returns: 1 when the command is cd and
\* shell_cd failed in the parent, the wait status otherwise.
SimpleResult(isCd, cdOk, st) == IF isCd /\ ~cdOk THEN 1 ELSE st

\* parse_simple, the parent after the fork: wait, apply cd in this process,
\* return 1 if that failed and the wait status otherwise.
SimpleWait(p) ==
    /\ AtFrame(p, "wait", {"simple_wait"})
    /\ LET pr == procs[p]
           f  == Top(pr)
           s  == Node(tree, f.n).scmd
           st == WaitStatus(procs[f.a].code)
           cd == ShellCd(pr.cwd, pr.env, s.params)
           v  == SimpleResult(IsCd(s), cd.ok, st)
       IN  /\ Zombie(f.a)
           /\ procs' = [Reaped(procs, f.a) EXCEPT
                           ![p].ctl = Ret(f.n, v),
                           ![p].stack = Pop(pr),
                           ![p].cwd = IF IsCd(s) THEN cd.cwd ELSE @]
           /\ Returned(f.n, v)
    /\ UNCHANGED <<tree, files, nfail, evals, cwdAt, failedAt, rd>>

\* A process forked for a subtree: shell_exit(status) once it is evaluated.
ChildExit(p) ==
    /\ AtFrame(p, "ret", {"exit"})
    /\ procs' = [procs EXCEPT ![p] = Exited(procs[p], procs[p].ctl.val)]
    /\ UNCHANGED <<tree, files, nfail, evals, status, cwdAt, failedAt, rd>>

\* run_in_parallel: the first fork.  The child evaluates cmd1 and exits with
\* its status; when the fork fails run_in_parallel returns at once.
RunInParallel(p) ==
    /\ At(p, "call")
    /\ LET pr == procs[p]
           n  == pr.ctl.node
       IN  /\ Node(tree, n).op = "OP_PARALLEL"
           /\ Entered(n, pr.cwd)
           /\ \/ /\ ForkWorks
                 /\ procs' = Append(
                        [procs EXCEPT
                           ![p].ctl = Ctl("fork2", n),
                           ![p].stack = Append(@,
                               [Frame("par", n) EXCEPT !.a = Len(procs) + 1])],
                        Child(pr, p, "par1", n, Call(n \o <<1>>),
                              <<Frame("exit", n)>>, pr.fds))
                 /\ UNCHANGED status
              \/ /\ ForkFails(n)
                 /\ procs' = [procs EXCEPT ![p].ctl = Ret(n, ParallelResult(0, 0))]
                 /\ Returned(n, ParallelResult(0, 0))
    /\ UNCHANGED <<tree, files, rd>>

\* run_in_parallel: the second fork, made by the original process.
ParallelFork2(p) ==
    /\ AtFrame(p, "fork2", {"par"})
    /\ LET pr == procs[p]
           f  == Top(pr)
       IN  \/ /\ ForkWorks
              /\ procs' = Append(
                     [procs EXCEPT
                        ![p].ctl = Ctl("wait", f.n),
                        ![p].stack = Append(Pop(pr),
                            [f EXCEPT !.k = "par_wait1", !.b = Len(procs) + 1])],
                     Child(pr, p, "par2", f.n, Call(f.n \o <<2>>),
                           <<Frame("exit", f.n)>>, pr.fds))
              /\ UNCHANGED status
           \/ /\ ForkFails(f.n)
              /\ procs' = [procs EXCEPT
                              ![p].ctl = Ret(f.n, ParallelResult(0, 0)),
                              ![p].stack = Pop(pr)]
              /\ Returned(f.n, ParallelResult(0, 0))
    /\ UNCHANGED <<tree, files, evals, cwdAt, rd>>

\* run_in_parallel: waitpid(pid1), then waitpid(pid2); parse_command then
\* breaks out of the switch.
ParallelWait(p) ==
    /\ AtFrame(p, "wait", {"par_wait1", "par_wait2"})
    /\ LET pr == procs[p]
           f  == Top(pr)
       IN  IF f.k = "par_wait1"
           THEN /\ Zombie(f.a)
                /\ procs' = [Reaped(procs, f.a) EXCEPT
                               ![p].stack = Append(Pop(pr),
                                   [f EXCEPT !.k = "par_wait2",
                                             !.a = WaitStatus(procs[f.a].code)])]
                /\ UNCHANGED status
           ELSE /\ Zombie(f.b)
                /\ LET v == ParallelResult(f.a, WaitStatus(procs[f.b].code))
                   IN  /\ procs' = [Reaped(procs, f.b) EXCEPT
                                      ![p].ctl = Ret(f.n, v),
                                      ![p].stack = Pop(pr)]
                       /\ Returned(f.n, v)
    /\ UNCHANGED <<tree, files, nfail, evals, cwdAt, failedAt, rd>>

\* The two ends of the channel pipe() creates for the PIPE node at path n.
PathName(n) == [i \in 1..Len(n) |-> IF n[i] = 1 THEN "1" ELSE "2"]
PipeEnd(n, mode) == [path |-> <<"|">> \o PathName(n), mode |-> mode]

\* The values an unassigned int holds once converted to run_on_pipe's bool.
UnassignedBool == {0, 1}

\* run_on_pipe: pipe() and the first fork.  The child closes the read end,
\* makes the write end its standard output, evaluates cmd1 and exits with
\* its status.  When the fork fails status2 is returned unassigned.
RunOnPipe(p) ==
    /\ At(p, "call")
    /\ LET pr  == procs[p]
           n   == pr.ctl.node
           r   == LowestFree(pr.fds)
           fd1 == [pr.fds EXCEPT ![r] = PipeEnd(n, "pipe_r")]
           w   == LowestFree(fd1)
           fd2 == [fd1 EXCEPT ![w] = PipeEnd(n, "pipe_w")]
       IN  /\ Node(tree, n).op = "OP_PIPE"
           /\ Entered(n, pr.cwd)
           /\ \/ /\ ForkWorks
                 /\ procs' = Append(
                        [procs EXCEPT
                           ![p].ctl = Ctl("fork2", n),
                           ![p].fds = fd2,
                           ![p].stack = Append(@,
                               [Frame("pipe", n) EXCEPT
                                   !.a = Len(procs) + 1, !.r = r, !.w = w])],
                        Child(pr, p, "pipe1", n, Call(n \o <<1>>),
                              <<Frame("exit", n)>>,
                              Close(Dup2(Close(fd2, r), w, STDOUT_FILENO), w)))
                 /\ UNCHANGED status
              \/ /\ ForkFails(n)
                 /\ \E v \in UnassignedBool :
                       /\ procs' = [procs EXCEPT ![p].ctl = Ret(n, v),
                                                 ![p].fds = fd2]
                       /\ Returned(n, v)
    /\ UNCHANGED <<tree, files, rd>>

ParentPipeFds_KeepsWrite(fds, r, w) == Close(fds, r)

\* run_on_pipe, the original process before it waits: close(pipefd[READ]),
\* close(pipefd[WRITE]).
ParentPipeFds(fds, r, w) == Close(Close(fds, r), w)

\* run_on_pipe: the second fork.  The child closes the write end, makes the
\* read end its standard input, evaluates cmd2 and exits with its status;
\* the original process closes both ends and goes on to wait.
PipeFork2(p) ==
    /\ AtFrame(p, "fork2", {"pipe"})
    /\ LET pr == procs[p]
           f  == Top(pr)
       IN  \/ /\ ForkWorks
              /\ procs' = Append(
                     [procs EXCEPT
                        ![p].ctl = Ctl("wait", f.n),
                        ![p].fds = ParentPipeFds(pr.fds, f.r, f.w),
                        ![p].stack = Append(Pop(pr),
                            [f EXCEPT !.k = "pipe_wait1", !.b = Len(procs) + 1])],
                     Child(pr, p, "pipe2", f.n, Call(f.n \o <<2>>),
                           <<Frame("exit", f.n)>>,
                           Close(Dup2(Close(pr.fds, f.w), f.r, STDIN_FILENO), f.r)))
              /\ UNCHANGED status
           \/ /\ ForkFails(f.n)
              /\ \E v \in UnassignedBool :
                    /\ procs' = [procs EXCEPT ![p].ctl = Ret(f.n, v),
                                              ![p].stack = Pop(pr)]
                    /\ Returned(f.n, v)
    /\ UNCHANGED <<tree, files, evals, cwdAt, rd>>

\* run_on_pipe: waitpid(pid1), waitpid(pid2), return status2 (as a bool).
PipeWait(p) ==
    /\ AtFrame(p, "wait", {"pipe_wait1", "pipe_wait2"})
    /\ LET pr == procs[p]
           f  == Top(pr)
       IN  IF f.k = "pipe_wait1"
           THEN /\ Zombie(f.a)
                /\ procs' = [Reaped(procs, f.a) EXCEPT
                               ![p].stack = Append(Pop(pr),
                                   [f EXCEPT !.k = "pipe_wait2",
                                             !.a = WaitStatus(procs[f.a].code)])]
                /\ UNCHANGED status
           ELSE /\ Zombie(f.b)
                /\ LET v == BoolOf(WaitStatus(procs[f.b].code))
                   IN  /\ procs' = [Reaped(procs, f.b) EXCEPT
                                      ![p].ctl = Ret(f.n, v),
                                      ![p].stack = Pop(pr)]
                       /\ Returned(f.n, v)
    /\ UNCHANGED <<tree, files, nfail, evals, cwdAt, failedAt, rd>>

EvaluatesDirectly_Inverted(c) == c.scmd # NullSimple

\* The test both conditional handlers start with (c->scmd == NULL).
EvaluatesDirectly(c) == c.scmd = NullSimple

\* Conditional_Zero and Conditional_NZero, entry: with c->scmd NULL the
\* conditional is evaluated in this process; otherwise in a forked child,
\* and 0 is returned when the fork fails.
Conditional(p) ==
    /\ At(p, "call")
    /\ LET pr == procs[p]
           n  == pr.ctl.node
           c  == Node(tree, n)
       IN  /\ c.op \in {"OP_CONDITIONAL_ZERO", "OP_CONDITIONAL_NZERO"}
           /\ Entered(n, pr.cwd)
           /\ IF EvaluatesDirectly(c)
              THEN /\ procs' = [procs EXCEPT
                                  ![p].ctl = Call(n \o <<1>>),
                                  ![p].stack = Append(@, Frame("cond_left", n))]
                   /\ UNCHANGED <<status, nfail, failedAt>>
              ELSE \/ /\ ForkWorks
                      /\ procs' = Append(
                             [procs EXCEPT
                                ![p].ctl = Ctl("wait", n),
                                ![p].stack = Append(@,
                                    [Frame("cond_wait", n) EXCEPT !.a = Len(procs) + 1])],
                             Child(pr, p, "cond", n, Call(n \o <<1>>),
                                   <<[Frame("cond_left", n) EXCEPT !.b = 1]>>,
                                   pr.fds))
                      /\ UNCHANGED status
                   \/ /\ ForkFails(n)
                      /\ procs' = [procs EXCEPT ![p].ctl = Ret(n, 0)]
                      /\ Returned(n, 0)
    /\ UNCHANGED <<tree, files, rd>>

\* The end of a conditional whose status is st: return st when it ran in the
\* calling process, shell_exit(st) in the forked child (frame field b = 1).
CondFinish(p, f, cwd, st) ==
    IF f.b = 1
    THEN /\ procs' = [procs EXCEPT ![p] = Exited([procs[p] EXCEPT !.cwd = cwd], st)]
         /\ UNCHANGED status
    ELSE /\ procs' = [procs EXCEPT ![p].ctl = Ret(f.n, st),
                                   ![p].stack = Pop(procs[p]),
                                   ![p].cwd = cwd]
         /\ Returned(f.n, st)

\* Conditional_Zero and Conditional_NZero after cmd1 returned: apply cd
\* again when cmd1 is a cd command, then evaluate cmd2 or finish.
ConditionalLeft(p) ==
    /\ AtFrame(p, "ret", {"cond_left"})
    /\ LET pr  == procs[p]
           f   == Top(pr)
           c   == Node(tree, f.n)
           st  == pr.ctl.val
           cwd == IF LeftIsCd(c)
                  THEN ShellCd(pr.cwd, pr.env, c.cmd1.scmd.params).cwd
                  ELSE pr.cwd
       IN  IF TakesRight(c.op, st)
           THEN /\ procs' = [procs EXCEPT
                               ![p].ctl = Call(f.n \o <<2>>),
                               ![p].cwd = cwd,
                               ![p].stack = Append(Pop(pr),
                                   [f EXCEPT !.k = "cond_right"])]
                /\ UNCHANGED status
           ELSE CondFinish(p, f, cwd, st)
    /\ UNCHANGED <<tree, files, nfail, evals, cwdAt, failedAt, rd>>

\* Conditional_Zero and Conditional_NZero after cmd2 returned.
ConditionalRight(p) ==
    /\ AtFrame(p, "ret", {"cond_right"})
    /\ CondFinish(p, Top(procs[p]), procs[p].cwd, procs[p].ctl.val)
    /\ UNCHANGED <<tree, files, nfail, evals, cwdAt, failedAt, rd>>

\* The parent of a forked conditional: wait and return the wait status;
\* Conditional_Zero applies cd in the parent when cmd1 is a cd command.
ConditionalWait(p) ==
    /\ AtFrame(p, "wait", {"cond_wait"})
    /\ LET pr == procs[p]
           f  == Top(pr)
           c  == Node(tree, f.n)
           v  == WaitStatus(procs[f.a].code)
       IN  /\ Zombie(f.a)
           /\ procs' = [Reaped(procs, f.a) EXCEPT
                           ![p].ctl = Ret(f.n, v),
                           ![p].stack = Pop(pr),
                           ![p].cwd = IF c.op = "OP_CONDITIONAL_ZERO" /\ LeftIsCd(c)
                                      THEN ShellCd(pr.cwd, pr.env,
                                                   c.cmd1.scmd.params).cwd
                                      ELSE @]
           /\ Returned(f.n, v)
    /\ UNCHANGED <<tree, files, nfail, evals, cwdAt, failedAt, rd>>

---------------------------------------------------------------------------
(* The command trees evaluated *)

Cmd(verb)       == Leaf(SimpleCmd(<<Lit(verb)>>, <<>>))
CdTo(path)      == Leaf(SimpleCmd(<<Lit(S_cd)>>, << <<Lit(path)>> >>))
Assign(name, w) == Leaf(SimpleCmd(<<Lit(name), Lit(S_eq)>> \o w, <<>>))

L_true   == Cmd(S_true)
L_false  == Cmd(S_false)
L_exit   == Cmd(S_exit)
L_quit   == Cmd(S_quit)
L_null   == Leaf(NullSimple)
L_cd     == Cmd(S_cd)
L_cd_rel == CdTo(S_f)
L_cd_abs == CdTo(<<"/", "g">>)
L_cd_bad == CdTo(<<"/", "n">>)
L_prog   == Cmd(S_p)
L_prog2  == Cmd(S_q)
L_nox    == Cmd(S_n)
L_asg      == Assign(S_X, <<Lit(S_v)>>)
L_asg_cd   == Assign(S_cd, <<Var(S_HOME), Lit(S_v)>>)
L_asg_exit == Assign(S_exit, <<Var(S_X)>>)

Leaves ==
    {L_true, L_false, L_exit, L_quit, L_null, L_cd, L_cd_rel, L_cd_abs,
     L_cd_bad, L_prog, L_nox, L_asg, L_asg_cd, L_asg_exit}

\* Commands with a redirection: n > g and cd > g.
Redirected(verb, out) ==
    Leaf([SimpleCmd(<<Lit(verb)>>, <<>>) EXCEPT !.out = <<Lit(out)>>])

L_nox_out == Redirected(S_n, S_g)
L_cd_out  == Redirected(S_cd, S_g)

RedirLeaves == {L_nox_out, L_cd_out}

\* The operator nodes: op and c->scmd, which only the conditionals read.
OpKinds ==
    {<<"OP_SEQUENTIAL", NullSimple>>, <<"OP_PARALLEL", NullSimple>>,
     <<"OP_PIPE", NullSimple>>,
     <<"OP_CONDITIONAL_ZERO", NullSimple>>,
     <<"OP_CONDITIONAL_ZERO", SimpleCmd(<<Lit(S_p)>>, <<>>)>>,
     <<"OP_CONDITIONAL_NZERO", NullSimple>>,
     <<"OP_CONDITIONAL_NZERO", SimpleCmd(<<Lit(S_p)>>, <<>>)>>}

NodesOver(ls, rs) == {OpNode(k[1], k[2], l, r) : k \in OpKinds, l \in ls, r \in rs}

Flat == NodesOver(Leaves \cup {NullCmd}, Leaves \cup {NullCmd})

Inner    == NodesOver({L_false, L_prog2}, {L_false, L_prog2})
Partners == {L_prog2}

Nested == NodesOver(Inner, Partners) \cup NodesOver(Partners, Inner)

Trees == Leaves \cup RedirLeaves \cup Flat \cup Nested

RdIdle == [phase |-> "idle"]

Init ==
    /\ tree \in Trees
    /\ procs = <<Shell>>
    /\ files = {S_f}
    /\ nfail = 0
    /\ evals = [n \in PathsOf(tree) |-> 0]
    /\ status = [n \in PathsOf(tree) |-> <<>>]
    /\ cwdAt = [n \in PathsOf(tree) |-> <<>>]
    /\ failedAt = {}
    /\ rd = RdIdle

Next ==
    \/ \E p \in DOMAIN procs : ParseCommand(p)
    \/ \E p \in DOMAIN procs : Sequential(p)
    \/ \E p \in DOMAIN procs : ParseSimpleBuiltin(p)
    \/ \E p \in DOMAIN procs : ParseSimpleFork(p)
    \/ \E p \in DOMAIN procs : SimpleChild(p)
    \/ \E p \in DOMAIN procs : ProgExit(p)
    \/ \E p \in DOMAIN procs : SimpleWait(p)
    \/ \E p \in DOMAIN procs : ChildExit(p)
    \/ \E p \in DOMAIN procs : RunInParallel(p)
    \/ \E p \in DOMAIN procs : ParallelFork2(p)
    \/ \E p \in DOMAIN procs : ParallelWait(p)
    \/ \E p \in DOMAIN procs : RunOnPipe(p)
    \/ \E p \in DOMAIN procs : PipeFork2(p)
    \/ \E p \in DOMAIN procs : PipeWait(p)
    \/ \E p \in DOMAIN procs : Conditional(p)
    \/ \E p \in DOMAIN procs : ConditionalLeft(p)
    \/ \E p \in DOMAIN procs : ConditionalRight(p)
    \/ \E p \in DOMAIN procs : ConditionalWait(p)

Spec == Init /\ [][Next]_vars

---------------------------------------------------------------------------
(* Claims about redirection *)

\* The command's output and error files were both opened by saveAllAndSwitch.
BothOpened ==
    /\ rd.phase = "switched"
    /\ rd.s.out # NullWord /\ rd.s.err # NullWord
    /\ IsOpen(rd.fds, rd.saved[5]) /\ IsOpen(rd.fds, rd.saved[6])

SamePath == GetFile(rd.s.out, rd.env) = GetFile(rd.s.err, rd.env)

\* C8: when the output and error targets resolve to the same path, both
\* files are opened in append mode, whatever the append flags are.
C8_SameTargetBothAppend ==
    (BothOpened /\ SamePath) =>
        /\ rd.fds[rd.saved[5]].mode = "append"
        /\ rd.fds[rd.saved[6]].mode = "append"

\* C9: when the output and error targets are different paths, the output
\* file is opened in append mode iff the output-append flag is set and the
\* error file iff the error-append flag is set; otherwise truncate-create.
C9_IndependentModes ==
    (BothOpened /\ ~SamePath) =>
        /\ rd.fds[rd.saved[5]].mode =
              (IF "IO_OUT_APPEND" \in rd.s.io_flags THEN "append" ELSE "trunc")
        /\ rd.fds[rd.saved[6]].mode =
              (IF "IO_ERR_APPEND" \in rd.s.io_flags THEN "append" ELSE "trunc")

\* C10: after saveAllAndSwitch followed by switchAndClose, descriptors 0, 1
\* and 2 refer to the same targets as before and the set of open
\* descriptors is the set that was open before.
C10_RoundTrip ==
    rd.phase = "restored" =>
        /\ \A fd \in {STDIN_FILENO, STDOUT_FILENO, STDERR_FILENO} :
               rd.fds[fd] = rd.before[fd]
        /\ OpenFds(rd.fds) = OpenFds(rd.before)


---------------------------------------------------------------------------
(* Claims about the command tree *)

Has(n) == status[n] # <<>>
Val(n) == status[n][1]

NodesWith(ops) == {n \in DOMAIN status : Node(tree, n).op \in ops}

Left(n)  == n \o <<1>>
Right(n) == n \o <<2>>

\* C1: a SEQUENCE node that has returned returned the status of its right
\* child, whatever the left child returned.
C1_SequenceReturnsRight ==
    \A n \in NodesWith({"OP_SEQUENTIAL"}) :
        Has(n) => Has(Right(n)) /\ Val(n) = Val(Right(n))

\* The condition under which a conditional node owes its right child an
\* evaluation: the left child returned 0 (IF_ZERO), nonzero (IF_NONZERO).
RightDue(n) ==
    /\ Has(Left(n))
    /\ IF Node(tree, n).op = "OP_CONDITIONAL_ZERO"
       THEN Val(Left(n)) = 0
       ELSE Val(Left(n)) # 0

Conditionals == NodesWith({"OP_CONDITIONAL_ZERO", "OP_CONDITIONAL_NZERO"})

\* The children of a conditional are evaluated at most once, the right one
\* only after the left one returned a status that calls for it.
CondOrder(n) ==
    /\ evals[Left(n)] <= 1
    /\ evals[Right(n)] <= 1
    /\ evals[Right(n)] = 1 => evals[Left(n)] = 1 /\ RightDue(n)

\* A conditional that has returned evaluated its left child, and its right
\* child if the left child's status called for it.
CondDone(n) ==
    /\ evals[Left(n)] = 1
    /\ RightDue(n) => evals[Right(n)] = 1

\* C2 as stated: for every conditional node the left child is evaluated
\* exactly once, before the right, and the right child is evaluated if and
\* only if the left child's status is 0 (IF_ZERO) or nonzero (IF_NONZERO).
C2_ConditionalAsStated ==
    \A n \in Conditionals : CondOrder(n) /\ (Has(n) => CondDone(n))

\* C2: the same, except that a conditional whose process could not be
\* created returns without evaluating either child.
C2_ConditionalOrder ==
    \A n \in Conditionals :
        /\ CondOrder(n)
        /\ Has(n) /\ n \notin failedAt => CondDone(n)
        /\ n \in failedAt => evals[Left(n)] = 0 /\ evals[Right(n)] = 0

\* A conditional over a compound left subtree returned after evaluating both
\* of its children.
C2_Witness ==
    \E n \in Conditionals :
        /\ Node(tree, Left(n)).op # "OP_NONE"
        /\ Has(n)
        /\ evals[Left(n)] = 1
        /\ evals[Right(n)] = 1

\* C3: a PIPE node that has returned returned the status of its right child
\* (stated here for the runs in which every process was created).
C3_PipeReturnsRight ==
    \A n \in NodesWith({"OP_PIPE"}) :
        failedAt = {} /\ Has(n) /\ Has(Right(n)) => Val(n) = Val(Right(n))

\* C4: a PARALLEL node returns 0 whatever its branches returned.
C4_ParallelFixedStatus ==
    \A n \in NodesWith({"OP_PARALLEL"}) : Has(n) => Val(n) = 0

\* A PARALLEL node returned after both of its branches failed.
C4_Witness ==
    \E n \in NodesWith({"OP_PARALLEL"}) :
        /\ Has(n)
        /\ Has(Left(n)) /\ Val(Left(n)) # 0
        /\ Has(Right(n)) /\ Val(Right(n)) # 0

\* The processes parse_simple spawned for a command other than cd and has
\* waited for.
ExternalsReaped ==
    {c \in DOMAIN procs : /\ procs[c].role = "simple"
                          /\ procs[c].st = "reaped"
                          /\ ~IsCd(Node(tree, procs[c].node).scmd)}

\* C5: parse_simple returns the exit code of the process it spawned for an
\* external command.
C5_ExternalStatusVerbatim ==
    \A c \in ExternalsReaped :
        Has(procs[c].node) /\ Val(procs[c].node) = procs[c].code

\* A simple command whose verb's first fragment is followed by "=".
AssignmentShape(s) ==
    /\ s # NullSimple
    /\ Len(s.verb) >= 2
    /\ s.verb[2].string = S_eq

\* Process p is about to evaluate a leaf of that shape.
AtAssignment(p) ==
    /\ At(p, "call")
    /\ Node(tree, procs[p].ctl.node).op = "OP_NONE"
    /\ AssignmentShape(Node(tree, procs[p].ctl.node).scmd)

\* The step of p sets the variable, returns 0 and creates no process.
AssignmentStep(p) ==
    LET s == Node(tree, procs[p].ctl.node).scmd
    IN  /\ Len(procs') = Len(procs)
        /\ procs'[p].st = "run"
        /\ procs'[p].ctl = Ret(procs[p].ctl.node, 0)
        /\ procs'[p].env =
              (s.verb[1].string :> Resolve(SubSeq(s.verb, 3, Len(s.verb)),
                                           procs[p].env)) @@ procs[p].env

\* C6: evaluating a simple command of the shape NAME = VALUE sets NAME to
\* the resolved VALUE and returns 0 without spawning a process, also when
\* NAME is the name of a built-in.
C6_AssignmentFirst ==
    [][\A p \in DOMAIN procs :
          AtAssignment(p) /\ procs'[p] # procs[p] => AssignmentStep(p)]_vars

\* The shell evaluated cd=$HOME v: it is still the only process, the
\* command returned 0 and cd names the resolved value.
C6_Witness ==
    /\ Len(procs) = 1
    /\ procs[1].ctl.kind = "ret"
    /\ Node(tree, procs[1].ctl.node) = L_asg_cd
    /\ procs[1].ctl.val = 0
    /\ S_cd \in DOMAIN procs[1].env
    /\ procs[1].env[S_cd] = <<"/", "g", "v">>

\* Process p has just returned from a cd command whose target could not be
\* entered from the directory it was evaluated in.
CdFailed(p) ==
    /\ procs[p].ctl.kind = "ret"
    /\ Node(tree, procs[p].ctl.node).op = "OP_NONE"
    /\ IsCd(Node(tree, procs[p].ctl.node).scmd)
    /\ ~ShellCd(cwdAt[procs[p].ctl.node], procs[p].env,
                Node(tree, procs[p].ctl.node).scmd.params).ok

\* The process evaluating the command is alive, in the directory it was in.
CdHarmless(p) ==
    /\ procs[p].st = "run"
    /\ procs[p].cwd = cwdAt[procs[p].ctl.node]

\* C7 as stated: a cd whose target cannot be entered returns 1, leaves the
\* working directory unchanged and does not terminate the process.
C7_CdFailureAsStated ==
    \A p \in DOMAIN procs :
        CdFailed(p) => procs[p].ctl.val = 1 /\ CdHarmless(p)

\* C7: the same, except that -1 is returned when the process for the
\* command could not be created.
C7_CdFailure ==
    \A p \in DOMAIN procs :
        CdFailed(p) =>
            /\ CdHarmless(p)
            /\ procs[p].ctl.val =
                  IF procs[p].ctl.node \in failedAt THEN -1 ELSE 1

\* The shell returned 1 from cd /n after waiting for its child.
C7_Witness ==
    /\ CdFailed(1)
    /\ procs[1].ctl.val = 1
    /\ procs[1].ctl.node \notin failedAt
    /\ Node(tree, procs[1].ctl.node) = L_cd_bad


---------------------------------------------------------------------------
(* Claims about the processes *)

\* The processes spawned by the operation on node n.
SpawnedFor(n) ==
    {c \in DOMAIN procs : procs[c].parent # 0 /\ procs[c].node = n}

\* C11: when an operation has returned, every process it spawned has been
\* waited for by the process that spawned it.
C11_ChildrenReaped ==
    \A n \in DOMAIN status :
        Has(n) => \A c \in SpawnedFor(n) : procs[c].st = "reaped"


\* The descriptors of a table that refer to an end of the channel of the
\* PIPE node n.
ChannelFds(fds, n) ==
    {fd \in FdRange : fds[fd] \in {PipeEnd(n, "pipe_r"), PipeEnd(n, "pipe_w")}}

\* A running child of the PIPE node n holds one end of its channel only.
HoldsOnly(c, n, fd, mode) ==
    /\ ChannelFds(procs[c].fds, n) = {fd}
    /\ procs[c].fds[fd] = PipeEnd(n, mode)

\* C12: when run_on_pipe returns, the original process holds neither end of
\* the channel; while they run the left child holds only the write end, as
\* its standard output, and the right child only the read end, as its
\* standard input.
C12_PipeEndsHeld ==
    \A n \in NodesWith({"OP_PIPE"}) :
        /\ \A p \in DOMAIN procs :
               procs[p].ctl = Ret(n, procs[p].ctl.val) =>
                   ChannelFds(procs[p].fds, n) = {}
        /\ \A c \in SpawnedFor(n) :
               procs[c].st = "run" =>
                   /\ procs[c].role = "pipe1" =>
                          HoldsOnly(c, n, STDOUT_FILENO, "pipe_w")
                   /\ procs[c].role = "pipe2" =>
                          HoldsOnly(c, n, STDIN_FILENO, "pipe_r")


\* Path m leads to the node at path n or to one of its ancestors.
IsPrefix(m, n) == Len(m) <= Len(n) /\ SubSeq(n, 1, Len(m)) = m

\* The processes spawned by the operations of the subtree at path m that
\* have not terminated.
RunningUnder(m) ==
    {c \in DOMAIN procs : /\ procs[c].parent # 0
                          /\ procs[c].st \in {"run", "prog"}
                          /\ IsPrefix(m, procs[c].node)}

\* C13: under a SEQUENCE, IF_ZERO or IF_NONZERO node no process of the right
\* subtree runs while a process spawned for the left subtree is running.
C13_StrictOrder ==
    \A n \in NodesWith({"OP_SEQUENTIAL", "OP_CONDITIONAL_ZERO",
                        "OP_CONDITIONAL_NZERO"}) :
        RunningUnder(Left(n)) = {} \/ RunningUnder(Right(n)) = {}


\* Process p is entering or leaving a branch of the conditional node n.
InBranch(p, n) ==
    /\ procs[p].st = "run"
    /\ procs[p].ctl.kind \in {"call", "ret"}
    /\ procs[p].ctl.node \in {Left(n), Right(n)}

\* No process is spawned for the conditional n itself.
CondDirect(n) == SpawnedFor(n) = {}

\* The conditional n is evaluated inside one spawned process: the process in
\* its branches is that one, and the process that spawned it is waiting.
CondInChild(n) ==
    /\ Cardinality(SpawnedFor(n)) = 1
    /\ \A p \in DOMAIN procs :
           InBranch(p, n) =>
               /\ p \in SpawnedFor(n)
               /\ procs[procs[p].parent].ctl.kind = "wait"
               /\ procs[procs[p].parent].ctl.node = n
    /\ Has(n) => \A c \in SpawnedFor(n) :
                     /\ procs[c].st = "reaped"
                     /\ Val(n) = procs[c].code * 256

Shortcut(n) == Node(tree, n).scmd # NullSimple

Started(n) == evals[Left(n)] > 0

\* C14 as stated: a conditional without the shortcut is evaluated inside one
\* spawned process, one with the shortcut directly.
C14_ForkWithoutShortcut ==
    \A n \in Conditionals :
        Started(n) => IF Shortcut(n) THEN CondDirect(n) ELSE CondInChild(n)

\* C14: a conditional without the shortcut is evaluated directly, with no
\* process of its own; one with the shortcut is evaluated inside one
\* spawned process, for which the original process waits and whose wait
\* status it returns; when that process cannot be created no branch is
\* evaluated.
C14_ForkWithShortcut ==
    \A n \in Conditionals :
        /\ Started(n) => IF Shortcut(n) THEN CondInChild(n) ELSE CondDirect(n)
        /\ ~Shortcut(n) => CondDirect(n)
        /\ n \in failedAt => ~Started(n) /\ CondDirect(n)

\* A conditional with the shortcut returned the nonzero wait status of the
\* process that evaluated both of its branches.
C14_Witness ==
    \E n \in Conditionals :
        /\ Shortcut(n)
        /\ Has(n) /\ Val(n) # 0
        /\ evals[Right(n)] = 1
        /\ \E c \in SpawnedFor(n) : procs[c].st = "reaped"


---------------------------------------------------------------------------
(* Claims about cd under a conditional *)

\* The conditionals whose left branch is a cd command and whose right
\* branch is not one.
CdConditionals ==
    {n \in Conditionals : /\ LeftIsCd(Node(tree, n))
                          /\ Node(tree, Right(n)).op = "OP_NONE"
                          /\ ~IsCd(Node(tree, Right(n)).scmd)}

\* The directory one application of the left branch's cd leads to from the
\* directory the conditional n was entered in.
CdOnce(n, env) ==
    ShellCd(cwdAt[n], env, Node(tree, Left(n)).scmd.params).cwd

\* C15: when a conditional whose left branch is a cd command has returned,
\* the process it returned in is in the directory that cd leads to.
C15_ParentFollowsCd ==
    \A n \in CdConditionals : \A p \in DOMAIN procs :
        procs[p].ctl = Ret(n, procs[p].ctl.val) /\ n \notin failedAt =>
            procs[p].cwd = CdOnce(n, procs[p].env)


\* C18: when the left branch of a conditional is a cd command, the process
\* that goes on to the right branch is in the directory one application of
\* that cd leads to from the directory the conditional was entered in.
C18_CdAppliedOnce ==
    \A n \in Conditionals : \A p \in DOMAIN procs :
        LeftIsCd(Node(tree, n)) /\ procs[p].ctl = Call(Right(n)) =>
            procs[p].cwd = CdOnce(n, procs[p].env)

---------------------------------------------------------------------------
(* Claims about the child of a simple command *)

\* The processes spawned for a simple command that have left its evaluation
\* without replacing their process image: cd, and a failed execvp.
LeftUnreplaced ==
    {c \in DOMAIN procs :
        /\ procs[c].role = "simple"
        /\ procs[c].st \in {"zombie", "reaped"}
        /\ VerbString(Node(tree, procs[c].node).scmd) \notin Programs}

\* C16: a process that applied the redirection of a simple command without
\* replacing its process image has restored the streams exactly once when it
\* leaves the evaluation of the command.
C16_RestoredOnce ==
    \A c \in LeftUnreplaced : procs[c].restores = 1


---------------------------------------------------------------------------
(* Claims about failures and statuses *)

\* C17: an operation in which a process could not be created returns a
\* nonzero status, -1 when it is a simple command.
C17_ForkFailureSentinel ==
    \A n \in failedAt :
        Has(n) => /\ Val(n) # 0
                  /\ Node(tree, n).op = "OP_NONE" => Val(n) = -1


\* The processes spawned to evaluate a subtree that have terminated.
SubtreeProcesses ==
    {c \in DOMAIN procs :
        /\ procs[c].role \in {"par1", "par2", "pipe1", "pipe2", "cond"}
        /\ procs[c].st \in {"zombie", "reaped"}}

\* The node whose status process c passes to exit(): its branch of the
\* PARALLEL or PIPE node, the branch evaluated last of a conditional.
YieldOf(c) ==
    LET n == procs[c].node
    IN  CASE procs[c].role \in {"par1", "pipe1"} -> Left(n)
          [] procs[c].role \in {"par2", "pipe2"} -> Right(n)
          [] OTHER -> IF evals[Right(n)] > 0 THEN Right(n) ELSE Left(n)

\* C19: when the subtree evaluated inside a spawned process yields a nonzero
\* status, the exit code the waiting process observes is nonzero.
C19_FailureSurvivesExit ==
    \A c \in SubtreeProcesses :
        Has(YieldOf(c)) /\ Val(YieldOf(c)) # 0 => procs[c].code # 0


---------------------------------------------------------------------------
(* Pipes: termination *)

\* The processes that hold descriptor entry e.
Holders(e) == {q \in DOMAIN procs : \E fd \in FdRange : procs[q].fds[fd] = e}

\* What obliges a running program to terminate: its input is at end-of-file
\* (it is no channel, or no process holds the channel's write end), or its
\* output is a channel no process holds the read end of.
InputEnded(p) ==
    LET in  == procs[p].fds[STDIN_FILENO]
        out == procs[p].fds[STDOUT_FILENO]
    IN  \/ in.mode # "pipe_r"
        \/ Holders([in EXCEPT !.mode = "pipe_w"]) = {}
        \/ out.mode = "pipe_w" /\ Holders([out EXCEPT !.mode = "pipe_r"]) = {}

\* The steps the processes are bound to take: every step of the shell's
\* code, and the termination of a program once InputEnded obliges it.
Progress ==
    \E p \in DOMAIN procs :
        \/ ParseCommand(p) \/ Sequential(p)
        \/ ParseSimpleBuiltin(p) \/ ParseSimpleFork(p)
        \/ SimpleChild(p) \/ SimpleWait(p) \/ ChildExit(p)
        \/ RunInParallel(p) \/ ParallelFork2(p) \/ ParallelWait(p)
        \/ RunOnPipe(p) \/ PipeFork2(p) \/ PipeWait(p)
        \/ Conditional(p) \/ ConditionalLeft(p)
        \/ ConditionalRight(p) \/ ConditionalWait(p)
        \/ InputEnded(p) /\ ProgExit(p)

\* The trees of pipes: a PIPE node over programs, built-ins and every kind of
\* operator node, nested pipes included.
PipeParts == {L_prog2, L_true} \cup NodesOver({L_prog2}, {L_prog2})

PipeOf(ls, rs) == {OpNode("OP_PIPE", NullSimple, l, r) : l \in ls, r \in rs}

PipeTrees == PipeOf(PipeParts, {L_prog2}) \cup PipeOf({L_prog2}, PipeParts)

InitPipes ==
    /\ tree \in PipeTrees
    /\ procs = <<Shell>>
    /\ files = {S_f}
    /\ nfail = 0
    /\ evals = [n \in PathsOf(tree) |-> 0]
    /\ status = [n \in PathsOf(tree) |-> <<>>]
    /\ cwdAt = [n \in PathsOf(tree) |-> <<>>]
    /\ failedAt = {}
    /\ rd = RdIdle

SpecPipes == InitPipes /\ [][Next]_vars /\ WF_vars(Progress)

IsPipe(n) == n \in DOMAIN status /\ Node(tree, n).op = "OP_PIPE"

\* The processes under the left branch of the PIPE node n that are alive.
WritersUnder(n) ==
    {c \in SpawnedFor(n) : procs[c].role = "pipe1"
                           /\ procs[c].st \in {"run", "prog"}}
        \cup RunningUnder(Left(n))

\* The original process of the PIPE node n is waiting for its children.
PipeWaiting(n) ==
    \E p \in DOMAIN procs :
        /\ procs[p].ctl = Ctl("wait", n)
        /\ procs[p].st = "run"

\* Once the writers under the left branch of a PIPE node have terminated, no
\* process holds the write end of its channel.
NoWriterLeft ==
    \A n \in NodesWith({"OP_PIPE"}) :
        PipeWaiting(n) /\ WritersUnder(n) = {} =>
            Holders(PipeEnd(n, "pipe_w")) = {}

\* Every PIPE node that was entered has returned, with both of its children
\* waited for, and the evaluation of the tree has returned.
PipesSettled ==
    /\ Has(<<>>)
    /\ \A n \in NodesWith({"OP_PIPE"}) :
           evals[n] > 0 =>
               /\ Has(n)
               /\ n \notin failedAt =>
                      \A c \in SpawnedFor(n) : procs[c].st = "reaped"

\* C20: pipe evaluation cannot deadlock: no process holds the write end of a
\* channel once the writers under the left branch have terminated, and the
\* waits of every PIPE node that is entered eventually return.
C20_PipesTerminate == []NoWriterLeft /\ <>[]PipesSettled

\* A pipe whose left branch is a pipe returned after the reader of each
\* channel had been waited for.
C20_Witness ==
    /\ IsPipe(<<>>) /\ IsPipe(<<1>>)
    /\ Has(<<>>) /\ Has(<<1>>)
    /\ failedAt = {}
    /\ \A c \in DOMAIN procs : procs[c].parent # 0 => procs[c].st = "reaped"

===========================================================================
